---- MODULE Spec2Model ----
(***************************************************************************)
(* Model of the foyer storage flush pipeline:                              *)
(*   foyer-storage/src/buffer.rs     FlushBuffer (rotate / flush / write)  *)
(*   foyer-storage/src/flusher.rs    Flusher (run / handle / update_catalog)*)
(*   foyer-storage/src/device/fs.rs  FsDevice::write                       *)
(* Sizes are scaled down: one model cell stands for one byte.              *)
(***************************************************************************)
EXTENDS Integers, Sequences, FiniteSets, TLC

\* ------------------------------------------------------------------ bounds
AlignLog == 2
RegionBlocks == 4
IoBlocks == 3
EntryHeaderLen == 1
NumRegions == 2
MaxEntries == 2
MaxOps == 4
MaxPins == 1
CfgLog == 3
CfgMax == 2

RECURSIVE pow2(_)
pow2(n) == IF n = 0 THEN 1 ELSE 2 * pow2(n - 1)

\* device.align(), device.region_size(), device.io_size() of the FsDeviceConfig
Align == pow2(AlignLog)
RegionSize == RegionBlocks * Align
IoSize == IoBlocks * Align

Regions == 0 .. (NumRegions - 1)
\* the keys the writers use: two, so that writes can hit the same key or different ones
Keys == {1, 2}
Seqs == 1 .. MaxEntries
None == -1

\* ------------------------------------------------------------------ bytes
\* one byte of a buffer or of a region file: <<kind, run count, payload>>
Cell(t, i, b) == <<t, i, <<b>>>>
\* byte i of an entry header <<key_len, value_len, sequence, compression, checksum>>
HdrCell(i, h) == <<"hdr", i, h>>
\* a byte exposed by set_len without being written
Uninit == Cell("uninit", 1, 0)

Compressions == {"None", "Zstd", "Lz4"}
\* value lengths around the region limit: OversizeLen cannot fit a fresh region when
\* stored uncompressed, FillLen fills the data blocks of a region exactly, HalfLen leaves
\* one block of the region free
OversizeLen == RegionSize - Align - EntryHeaderLen - 1
FillLen == OversizeLen - 1
HalfLen == FillLen - Align
\* <<value length, compression>> of the entries the writers produce
Shapes == {<<1, "None">>, <<OversizeLen, "Zstd">>, <<OversizeLen, "None">>, <<FillLen, "None">>,
           <<HalfLen, "None">>}
\* the shapes used when the FlushBuffer is driven directly
BufShapes == Shapes \cup {<<3, "Lz4">>}

\* the value of the entry with sequence s and length n: n bytes of s
ValueOf(s, n) == [j \in 1 .. n |-> s]

MkEntry(k, s, n, c) == [key |-> k, value |-> ValueOf(s, n), sequence |-> s, compression |-> c]
NoEntry == [key |-> 0, value |-> <<>>, sequence |-> 0, compression |-> "None"]

align_up(align, v) == ((v + align - 1) \div align) * align
is_aligned(align, v) == v % align = 0

\* bincode of Vec<u8>: length prefix, then the bytes
bincode_value(v) == <<Cell("len", 1, Len(v))>> \o [j \in 1 .. Len(v) |-> Cell("val", 1, v[j])]
\* bincode of the key
bincode_key(k) == <<Cell("key", 1, k)>>

\* the frame encoders: a frame marker followed by the run-length form of the stream
SameByte(c, d) == c[1] = d[1] /\ c[3] = d[3]
RunLen(s) == CHOOSE n \in 1 .. Len(s) : /\ \A j \in 1 .. n : SameByte(s[j], s[1])
                                        /\ (n = Len(s) \/ ~SameByte(s[n + 1], s[1]))
RECURSIVE rle(_)
rle(s) == IF s = <<>> THEN <<>>
          ELSE LET n == RunLen(s) IN <<<<s[1][1], n, s[1][3]>>>> \o rle(SubSeq(s, n + 1, Len(s)))
RECURSIVE unrle(_)
unrle(s) == IF s = <<>> THEN <<>>
            ELSE [j \in 1 .. s[1][2] |-> <<s[1][1], 1, s[1][3]>>] \o unrle(Tail(s))

encode_value(c, v) == IF c = "None" THEN bincode_value(v)
                      ELSE <<Cell(c, 1, 0)>> \o rle(bincode_value(v))

RECURSIVE checksum(_)
checksum(s) == IF s = <<>> THEN 0 ELSE (s[1][3][1] + s[1][2] + checksum(Tail(s))) % 251

\* <<key_len, value_len, sequence, compression, checksum>>
EntryHeader(e, vbytes, kbytes) ==
  <<Len(kbytes), Len(vbytes), e.sequence, e.compression, checksum(vbytes \o kbytes)>>

header_write(h) == [j \in 1 .. EntryHeaderLen |-> HdrCell(j, h)]

\* | header | value (compressed) | key |
EncodeEntry(e) ==
  LET vbytes == encode_value(e.compression, e.value)
      kbytes == bincode_key(e.key)
  IN header_write(EntryHeader(e, vbytes, kbytes)) \o vbytes \o kbytes

\* the reader side: parse the header, check the checksum, decode the value
HeaderParses(b) == /\ Len(b) >= EntryHeaderLen
                   /\ \A j \in 1 .. EntryHeaderLen : b[j][1] = "hdr" /\ b[j][2] = j /\ b[j][3] = b[1][3]
decode_value(c, vbytes) ==
  LET plain == IF c = "None" THEN vbytes ELSE unrle(Tail(vbytes))
  IN IF plain = <<>> \/ plain[1][1] # "len" \/ Len(plain) # plain[1][3][1] + 1 THEN <<-1>>
     ELSE [j \in 1 .. plain[1][3][1] |-> plain[j + 1][3][1]]
ReadBack(b) ==
  IF ~HeaderParses(b) THEN [ok |-> FALSE, sequence |-> 0, value |-> <<>>]
  ELSE LET h == b[1][3]
           n == EntryHeaderLen + h[2] + h[1]
       IN IF Len(b) < n THEN [ok |-> FALSE, sequence |-> 0, value |-> <<>>]
          ELSE LET vbytes == SubSeq(b, EntryHeaderLen + 1, EntryHeaderLen + h[2])
                   kbytes == SubSeq(b, EntryHeaderLen + h[2] + 1, n)
               IN [ok |-> checksum(vbytes \o kbytes) = h[5],
                   sequence |-> h[3],
                   value |-> decode_value(h[4], vbytes)]

RegionHeaderBlock == <<Cell("region_header", 1, 0)>> \o [j \in 1 .. (Align - 1) |-> Uninit]

\* ------------------------------------------------------------------ device
\* a region file is kept up to its last written byte; the bytes behind it are unwritten
ByteAt(file, j) == IF j <= Len(file) THEN file[j] ELSE Uninit

\* FsDevice::write: range assertion, then pwrite of the whole buffer at offset
device_write(d, buf, region, offset, ok) ==
  IF offset + Len(buf) > RegionSize THEN [dev |-> d, res |-> "Panic"]
  ELSE IF ~ok THEN [dev |-> d, res |-> "Err"]
  ELSE LET end == IF offset + Len(buf) > Len(d[region]) THEN offset + Len(buf) ELSE Len(d[region])
       IN [dev |-> [d EXCEPT ![region] =
                      [j \in 1 .. end |->
                         IF j > offset /\ j <= offset + Len(buf) THEN buf[j - offset] ELSE ByteAt(@, j)]],
           res |-> "Ok"]

\* FsDevice::read of len bytes at offset
device_read(d, region, offset, len) == [j \in 1 .. len |-> ByteAt(d[region], offset + j)]

\* ------------------------------------------------------------------ FlushBuffer
\* FlushBuffer::new
NewFlushBuffer == [buffer |-> <<>>, region |-> None, offset |-> 0, entries |-> <<>>]

Result(f, d, kind, cause, entries, entry, io) ==
  [fb |-> f, dev |-> d, kind |-> kind, cause |-> cause, entries |-> entries, entry |-> entry, io |-> io]

remaining(f) == IF f.region = None THEN 0
                ELSE LET used == f.offset + Len(f.buffer)
                     IN IF RegionSize > used THEN RegionSize - used ELSE 0

\* set_len(len) on the staging buffer: longer exposes unwritten bytes, shorter truncates
set_len(buf, len) == IF len <= Len(buf) THEN SubSeq(buf, 1, len)
                     ELSE buf \o [j \in 1 .. (len - Len(buf)) |-> Uninit]

\* variant: the region is kept when the flush filled it
flush_next_region_kept(region, new_offset) == region

\* the region field after a successful flush moved offset to new_offset
flush_next_region(region, new_offset) == IF new_offset = RegionSize THEN None ELSE region

\* variant: the pending entries are drained before the result of device.write is looked at
flush_on_error_drained(f, d, io) ==
  Result([f EXCEPT !.buffer = <<>>, !.entries = <<>>], d, "Err", "io", <<>>, NoEntry, io)

\* variant: offset and region are advanced before the result of device.write is looked at
flush_on_error_advanced(f, d, io) ==
  LET end == f.offset + align_up(Align, Len(f.buffer))
  IN Result([f EXCEPT !.buffer = <<>>, !.offset = end, !.region = flush_next_region(f.region, end)],
            d, "Err", "io", <<>>, NoEntry, io)

\* what flush returns when device.write failed (res? propagates the error)
flush_on_error(f, d, io) ==
  Result([f EXCEPT !.buffer = <<>>], d, "Err", "io", <<>>, NoEntry, io)

\* variant: the offset is not advanced past the flushed bytes
flush_next_offset_stuck(offset, len) == offset

\* advance io buffer
flush_next_offset(offset, len) == offset + len

\* variant: the pending entries are returned and kept
flush_drain_kept(entries) == entries

\* the pending list after a successful flush handed entries out
flush_drain(entries) == <<>>

flush(f, d, ok) ==
  IF f.region = None THEN Result(f, d, "Ok", "", <<>>, NoEntry, <<>>)
  ELSE LET len == align_up(Align, Len(f.buffer))
           buf == set_len(f.buffer, len)
           w   == device_write(d, buf, f.region, f.offset, ok)
           io  == <<[region |-> f.region, offset |-> f.offset, buf |-> buf, ok |-> w.res = "Ok"]>>
       IN IF w.res = "Panic"
            THEN Result([f EXCEPT !.buffer = <<>>], d, "Panic", "range", <<>>, NoEntry, <<>>)
          ELSE IF w.res = "Err" THEN flush_on_error(f, d, io)
          ELSE Result([buffer |-> <<>>,
                       region |-> flush_next_region(f.region, flush_next_offset(f.offset, len)),
                       offset |-> flush_next_offset(f.offset, len),
                       entries |-> flush_drain(f.entries)],
                      w.dev, "Ok", "", f.entries, NoEntry, io)

\* variant: the offset of the previous region is kept
rotate_offset_kept(f, d, region, ok) ==
  LET r == flush(f, d, ok)
  IN IF r.kind # "Ok" THEN r
     ELSE Result([r.fb EXCEPT !.region = region, !.buffer = RegionHeaderBlock],
                 r.dev, "Ok", "", r.entries, NoEntry, r.io)

\* variant: region, offset and header are installed whatever the flush returned
rotate_switched_early(f, d, region, ok) ==
  LET r == flush(f, d, ok)
  IN Result([r.fb EXCEPT !.region = region, !.offset = 0, !.buffer = RegionHeaderBlock],
            r.dev, r.kind, r.cause, r.entries, NoEntry, r.io)

rotate(f, d, region, ok) ==
  LET r == flush(f, d, ok)
  IN IF r.kind # "Ok" THEN r
     ELSE Result([r.fb EXCEPT !.region = region, !.offset = 0, !.buffer = RegionHeaderBlock],
                 r.dev, "Ok", "", r.entries, NoEntry, r.io)

\* the staging buffer after the header, value and key of e were serialized behind old
write_serialize(buf, e) == buf \o EncodeEntry(e)

\* the staging buffer left behind when an encoder returns an error through `?`
write_codec_error(buf, e, enc) ==
  IF enc = "value_err" THEN set_len(buf, Len(buf) + EntryHeaderLen)
  ELSE set_len(buf, Len(buf) + EntryHeaderLen) \o encode_value(e.compression, e.value)

\* variant: the rollback forgets to truncate
write_rollback_kept(buf, old) == buf

\* (*) rollback when the serialized entry exceeds the region
write_rollback(buf, old) == set_len(buf, old)

\* variant: the staged entry is not padded to the alignment
write_pad_unpadded(buf) == buf

\* 3. align buffer size
write_pad(buf) == set_len(buf, align_up(Align, Len(buf)))

\* variant: the entry is positioned at the buffer start instead of behind the staged bytes
write_position_unshifted(f, old, buf, e) ==
  [entry |-> e, region |-> f.region, offset |-> f.offset, len |-> Len(buf) - old]

write_position(f, old, buf, e) ==
  [entry |-> e, region |-> f.region, offset |-> f.offset + old, len |-> Len(buf) - old]

\* variant: only the io_size threshold is looked at
write_should_flush_io_only(f) == Len(f.buffer) >= IoSize

write_should_flush(f) == Len(f.buffer) >= IoSize \/ remaining(f) = 0

\* variant: staged entries are handed out before any flush
write_no_flush_published(f) == f.entries

\* what write returns when the entry was staged and no flush is due
write_no_flush(f) == <<>>

\* enc: outcome of the encoders ("ok", "value_err", "key_err"); ok: outcome of device.write;
\* dbg: whether the build compiles debug_assert! (read only where an assertion would fail)
write(f, d, e, enc, ok, dbg) ==
  IF f.region = None THEN Result(f, d, "Right", "", <<>>, e, <<>>)
  ELSE LET old == Len(f.buffer) IN
    IF dbg /\ ~is_aligned(Align, old) THEN Result(f, d, "Panic", "align", <<>>, NoEntry, <<>>)
    ELSE IF enc # "ok"
      THEN Result([f EXCEPT !.buffer = write_codec_error(f.buffer, e, enc)], d, "Err", "codec", <<>>, NoEntry, <<>>)
    ELSE LET ser == write_serialize(f.buffer, e) IN
      IF f.offset + Len(ser) > RegionSize
        THEN Result([f EXCEPT !.buffer = write_rollback(ser, old)], d, "Right", "", <<>>, e, <<>>)
      ELSE LET buf == write_pad(ser)
               g == [f EXCEPT !.buffer = buf,
                              !.entries = Append(f.entries, write_position(f, old, buf, e))]
           IN IF write_should_flush(g)
                THEN LET r == flush(g, d, ok)
                     IN IF r.kind = "Ok" THEN [r EXCEPT !.kind = "Left"] ELSE r
              ELSE Result(g, d, "Left", "", write_no_flush(g), NoEntry, <<>>)

\* ------------------------------------------------------------------ state
VARIABLES
  fb,               \* the FlushBuffer: buffer, region, offset, entries
  dev,              \* the region files: dev[r] is the content of region r
  pc,               \* where Flusher::run is: select, acquire, rotate, retry, exited, failed, panicked
  entry_rx,         \* entries in the channel
  closed,           \* all senders dropped
  stop,             \* the stop broadcast fired
  cur,              \* the entry that write handed back as Right
  old_region,       \* handle's old_region
  new_region,       \* handle's new_region
  catalog,          \* key -> item
  clean,            \* the clean region channel
  evictq,           \* regions pushed by eviction_push, not yet reclaimed
  call,             \* history: the last FlushBuffer call and its argument
  pre,              \* history: the FlushBuffer and write count before that call
  ret,              \* history: what the call returned
  anyErr,           \* history: some FlushBuffer call returned an error or panicked
  known,            \* history: entries handed to FlushBuffer::write
  acked,            \* history: sequences whose bytes were in a successful device.write
  nwrites,          \* history: number of device.write calls issued
  ncalls,           \* history: number of FlushBuffer calls
  sent,             \* history: entries sent on the channel
  staged,           \* history: sequences that write accepted into the buffer
  inserted,         \* history: every catalog.insert, with the generation of its region
  pushed,           \* history: eviction_push calls per region
  rotated,          \* history: rotations into each region
  evicted,          \* history: sequences whose catalog item the evictor removed
  pin,              \* pin[r]: readers holding region r for a device read
  cfg               \* a FsDeviceConfigBuilder and what build made of it

bufVars == <<fb, dev>>
runVars == <<pc, entry_rx, closed, stop, cur, old_region, new_region, catalog, clean, evictq>>
callVars == <<call, pre, ret, anyErr, known, acked, nwrites, ncalls>>
histVars == <<sent, staged, inserted, pushed, rotated, evicted>>
sideVars == <<pin, cfg>>
vars == <<bufVars, runVars, callVars, histVars, sideVars>>

NoItem == [sequence |-> 0, region |-> None, offset |-> 0, len |-> 0]
NoCall == [op |-> "new", entry |-> NoEntry, region |-> None]
NoCfg == [in |-> <<>>, out |-> <<>>]
NoRet == [kind |-> "Ok", cause |-> "", entries |-> <<>>, entry |-> NoEntry]

\* the builds that differ at a write: debug_assert!(is_aligned(align, old)) only matters when it fails
Builds(f) == IF is_aligned(Align, Len(f.buffer)) THEN {FALSE} ELSE BOOLEAN

Contains(buf, enc) == \E j \in 0 .. (Len(buf) - Len(enc)) : SubSeq(buf, j + 1, j + Len(enc)) = enc

\* sequences of the entries whose encoding is inside a buffer that the device accepted
AckedBy(io, es) == {e.sequence : e \in {x \in es : \E w \in 1 .. Len(io) : io[w].ok /\ Contains(io[w].buf, EncodeEntry(x))}}

\* bookkeeping shared by every FlushBuffer call
Called(op, e, region, r) ==
  /\ fb' = r.fb
  /\ dev' = r.dev
  /\ call' = [op |-> op, entry |-> e, region |-> region]
  /\ pre' = [fb |-> fb, nwrites |-> nwrites]
  /\ ret' = [kind |-> r.kind, cause |-> r.cause, entries |-> r.entries, entry |-> r.entry]
  /\ anyErr' = (anyErr \/ r.kind \in {"Err", "Panic"})
  /\ known' = (IF op = "write" THEN known \cup {e} ELSE known)
  /\ acked' = acked \cup AckedBy(r.io, known')
  /\ nwrites' = nwrites + Len(r.io)
  /\ ncalls' = ncalls + 1

InitState ==
  /\ fb = NewFlushBuffer
  /\ dev = [r \in Regions |-> <<>>]
  /\ pc = "select"
  /\ entry_rx = <<>>
  /\ closed = FALSE
  /\ stop = FALSE
  /\ cur = NoEntry
  /\ old_region = None
  /\ new_region = None
  /\ catalog = [k \in Keys |-> NoItem]
  /\ clean = [j \in 1 .. NumRegions |-> j - 1]
  /\ evictq = <<>>
  /\ call = NoCall
  /\ pre = [fb |-> NewFlushBuffer, nwrites |-> 0]
  /\ ret = NoRet
  /\ anyErr = FALSE
  /\ known = {}
  /\ acked = {}
  /\ nwrites = 0
  /\ ncalls = 0
  /\ sent = {}
  /\ staged = {}
  /\ inserted = {}
  /\ pushed = [r \in Regions |-> 0]
  /\ rotated = [r \in Regions |-> 0]
  /\ evicted = {}
  /\ pin = [r \in Regions |-> 0]

InitCommon == InitState /\ cfg = NoCfg

\* ------------------------------------------------------------------ FlushBuffer driven directly
\* a caller holding the FlushBuffer issues rotate / write / flush in any order
CallWrite(shape, enc, ok, dbg) ==
  /\ ret.kind # "Panic"
  /\ ncalls < MaxOps
  /\ LET e == MkEntry(1, ncalls + 1, shape[1], shape[2])
     IN Called("write", e, None, write(fb, dev, e, enc, ok, dbg))
  /\ UNCHANGED <<runVars, histVars>>
  /\ UNCHANGED sideVars

CallRotate(region, ok) ==
  /\ ret.kind # "Panic"
  /\ ncalls < MaxOps
  /\ Called("rotate", NoEntry, region, rotate(fb, dev, region, ok))
  /\ UNCHANGED <<runVars, histVars>>
  /\ UNCHANGED sideVars

CallFlush(ok) ==
  /\ ret.kind # "Panic"
  /\ ncalls < MaxOps
  /\ Called("flush", NoEntry, None, flush(fb, dev, ok))
  /\ UNCHANGED <<runVars, histVars>>
  /\ UNCHANGED sideVars

NextBuf ==
  \/ \E shape \in BufShapes, enc \in {"ok", "value_err", "key_err"}, ok \in BOOLEAN, dbg \in Builds(fb) :
       CallWrite(shape, enc, ok, dbg)
  \/ \E region \in Regions, ok \in BOOLEAN : CallRotate(region, ok)
  \/ \E ok \in BOOLEAN : CallFlush(ok)

SpecBuf == InitCommon /\ [][NextBuf]_vars

\* ------------------------------------------------------------------ catalog and region manager
\* Catalog::insert: last writer wins by sequence
catalog_insert(cat, key, item) ==
  IF cat[key].sequence > item.sequence THEN cat ELSE [cat EXCEPT ![key] = item]

\* Region::view(offset, len) wrapped into Item::new(sequence, index)
ItemOf(p) == [sequence |-> p.entry.sequence, region |-> p.region, offset |-> p.offset, len |-> p.len]

RECURSIVE update_catalog(_, _)
update_catalog(cat, entries) ==
  IF entries = <<>> THEN cat
  ELSE update_catalog(catalog_insert(cat, entries[1].entry.key, ItemOf(entries[1])), Tail(entries))

\* eviction_push(old_region) when handle remembered a region
eviction_push(q, region) == IF region # None THEN Append(q, region) ELSE q

Range(q) == {q[j] : j \in 1 .. Len(q)}

\* the catalog inserts of one update_catalog call, as history
Publish(entries) ==
  /\ catalog' = update_catalog(catalog, entries)
  /\ inserted' = inserted \cup {[sequence |-> p.entry.sequence, key |-> p.entry.key, region |-> p.region,
                                 offset |-> p.offset, len |-> p.len, gen |-> rotated[p.region]]
                                : p \in Range(entries)}

Staged(e, r) == IF r.kind = "Left" \/ (r.kind = "Err" /\ r.cause = "io") THEN staged \cup {e.sequence} ELSE staged

\* ------------------------------------------------------------------ writers, shutdown
Send(k, shape, s) ==
  /\ pc \notin {"exited", "failed", "panicked"}
  /\ ~closed
  /\ Cardinality(sent) < MaxEntries
  /\ s \notin {e.sequence : e \in sent}
  /\ LET e == MkEntry(k, s, shape[1], shape[2])
     IN /\ entry_rx' = Append(entry_rx, e)
        /\ sent' = sent \cup {e}
  /\ UNCHANGED <<bufVars, callVars, pc, closed, stop, cur, old_region, new_region, catalog, clean, evictq,
                 staged, inserted, pushed, rotated, evicted>>
  /\ UNCHANGED sideVars

Close ==
  /\ ~closed
  /\ closed' = TRUE
  /\ UNCHANGED <<bufVars, callVars, histVars, pc, entry_rx, stop, cur, old_region, new_region, catalog, clean, evictq>>
  /\ UNCHANGED sideVars

FireStop ==
  /\ ~stop
  /\ stop' = TRUE
  /\ UNCHANGED <<bufVars, callVars, histVars, pc, entry_rx, closed, cur, old_region, new_region, catalog, clean, evictq>>
  /\ UNCHANGED sideVars

\* ------------------------------------------------------------------ Flusher::run and Flusher::handle
\* variant: handle logs the error of a FlushBuffer call and run selects again
handle_failed_ignored(kind) == "select"

\* where run ends when a FlushBuffer call inside handle did not return Ok: `?` carries
\* the error out of handle and run, a failed assertion unwinds the task
handle_failed(kind) == IF kind = "Panic" THEN "panicked" ELSE "failed"

\* select: an entry is ready; handle up to the first write
HandleEntry(enc, ok, dbg) ==
  /\ pc = "select"
  /\ entry_rx # <<>>
  /\ LET e == Head(entry_rx)
         r == write(fb, dev, e, enc, ok, dbg)
     IN /\ Called("write", e, None, r)
        /\ entry_rx' = Tail(entry_rx)
        /\ old_region' = fb.region
        /\ staged' = Staged(e, r)
        /\ IF r.kind = "Left" THEN /\ Publish(r.entries)
                                   /\ pc' = "select"
                                   /\ cur' = NoEntry
           ELSE IF r.kind = "Right" THEN /\ pc' = "acquire"
                                         /\ cur' = r.entry
                                         /\ UNCHANGED <<catalog, inserted>>
           ELSE /\ pc' = handle_failed(r.kind)
                /\ cur' = NoEntry
                /\ UNCHANGED <<catalog, inserted>>
  /\ UNCHANGED <<closed, stop, new_region, clean, evictq, sent, pushed, rotated, evicted>>
  /\ UNCHANGED sideVars

\* the final flush of run; its result is dropped
FinalFlush(ok) ==
  LET r == flush(fb, dev, ok)
  IN /\ Called("flush", NoEntry, None, r)
     /\ pc' = (IF r.kind = "Ok" THEN "exited" ELSE IF r.kind = "Panic" THEN "panicked" ELSE "failed")
     /\ UNCHANGED <<entry_rx, closed, stop, cur, old_region, new_region, catalog, clean, evictq, histVars>>
     /\ UNCHANGED sideVars

\* select: recv returned None
ExitOnClosed(ok) ==
  /\ pc = "select"
  /\ entry_rx = <<>>
  /\ closed
  /\ FinalFlush(ok)

\* select: no entry is ready and the stop signal is
ExitOnStop(ok) ==
  /\ pc = "select"
  /\ entry_rx = <<>>
  /\ ~closed
  /\ stop
  /\ FinalFlush(ok)

\* 1. get a clean region
Acquire ==
  /\ pc = "acquire"
  /\ clean # <<>>
  /\ new_region' = Head(clean)
  /\ clean' = Tail(clean)
  /\ pc' = "rotate"
  /\ UNCHANGED <<bufVars, callVars, histVars, entry_rx, closed, stop, cur, old_region, catalog, evictq>>
  /\ UNCHANGED sideVars

\* variant: the region just rotated into is pushed instead of the one left
handle_push_new(kind, old, new) == IF kind = "Ok" THEN new ELSE None

\* variant: the old region is pushed before the result of rotate is looked at
handle_push_unchecked(kind, old, new) == old

\* the region handle pushes to the eviction queue after rotate returned kind
handle_push(kind, old, new) == IF kind = "Ok" THEN old ELSE None

\* 2. rotate flush buffer, publish, push the old region
Rotate(ok) ==
  /\ pc = "rotate"
  /\ LET r == rotate(fb, dev, new_region, ok)
         p == handle_push(r.kind, old_region, new_region)
     IN /\ Called("rotate", NoEntry, new_region, r)
        /\ evictq' = eviction_push(evictq, p)
        /\ pushed' = [x \in Regions |-> IF x = p THEN pushed[x] + 1 ELSE pushed[x]]
        /\ IF r.kind = "Ok"
             THEN /\ Publish(r.entries)
                  /\ rotated' = [rotated EXCEPT ![new_region] = @ + 1]
                  /\ pc' = "retry"
             ELSE /\ pc' = handle_failed(r.kind)
                  /\ UNCHANGED <<catalog, inserted, rotated>>
  /\ UNCHANGED <<entry_rx, closed, stop, cur, old_region, new_region, clean, sent, staged, evicted>>
  /\ UNCHANGED sideVars

\* 3. retry write; unwrap_left panics on Right
Retry(enc, ok, dbg) ==
  /\ pc = "retry"
  /\ LET r == write(fb, dev, cur, enc, ok, dbg)
     IN /\ Called("write", cur, None, r)
        /\ staged' = Staged(cur, r)
        /\ IF r.kind = "Left" THEN /\ Publish(r.entries)
                                   /\ pc' = "select"
           ELSE /\ pc' = (IF r.kind = "Right" THEN "panicked" ELSE handle_failed(r.kind))
                /\ UNCHANGED <<catalog, inserted>>
        /\ cur' = NoEntry
  /\ UNCHANGED <<entry_rx, closed, stop, old_region, new_region, clean, evictq, sent, pushed, rotated, evicted>>
  /\ UNCHANGED sideVars

\* the evictor: once no reader pins it, reclaim a pushed region, dropping the catalog
\* items that point into it
Evict ==
  /\ evictq # <<>>
  /\ pin[Head(evictq)] = 0
  /\ LET r == Head(evictq)
     IN /\ catalog' = [k \in Keys |-> IF catalog[k].region = r THEN NoItem ELSE catalog[k]]
        /\ evicted' = evicted \cup {catalog[k].sequence : k \in {x \in Keys : catalog[x].region = r}}
        /\ clean' = Append(clean, r)
        /\ evictq' = Tail(evictq)
  /\ UNCHANGED <<bufVars, callVars, pc, entry_rx, closed, stop, cur, old_region, new_region,
                 sent, staged, inserted, pushed, rotated>>
  /\ UNCHANGED sideVars

\* a reader looked key k up and pins the region of the view for its device read
Pin(k) ==
  /\ catalog[k] # NoItem
  /\ pin[catalog[k].region] < MaxPins
  /\ pin' = [pin EXCEPT ![catalog[k].region] = @ + 1]
  /\ UNCHANGED <<bufVars, runVars, callVars, histVars, cfg>>

\* the reader's device read is done
Unpin(r) ==
  /\ pin[r] > 0
  /\ pin' = [pin EXCEPT ![r] = @ - 1]
  /\ UNCHANGED <<bufVars, runVars, callVars, histVars, cfg>>

Next ==
  \/ \E k \in Keys, shape \in Shapes, s \in Seqs : Send(k, shape, s)
  \/ Close
  \/ FireStop
  \/ \E enc \in {"ok", "value_err", "key_err"}, ok \in BOOLEAN, dbg \in Builds(fb) : HandleEntry(enc, ok, dbg)
  \/ \E ok \in BOOLEAN : ExitOnClosed(ok)
  \/ \E ok \in BOOLEAN : ExitOnStop(ok)
  \/ Acquire
  \/ \E ok \in BOOLEAN : Rotate(ok)
  \/ \E enc \in {"ok", "value_err", "key_err"}, ok \in BOOLEAN, dbg \in Builds(fb) : Retry(enc, ok, dbg)
  \/ Evict

Spec == InitCommon /\ [][Next]_vars

\* the Flusher task is not suspended: an entry, the close or the stop signal is ready in
\* select, a clean region is ready in acquire, or it is between two awaits of handle
FlusherCanStep ==
  \/ pc = "select" /\ (entry_rx # <<>> \/ closed \/ stop)
  \/ pc = "acquire" /\ clean # <<>>
  \/ pc \in {"rotate", "retry"}

\* a step of the Flusher task, told by what it changes: every step of run and handle
\* moves pc or makes a FlushBuffer call, and no other step does
FlusherMove ==
  /\ FlusherCanStep
  /\ pc' \in {"select", "acquire", "rotate", "retry", "exited", "failed", "panicked"}
  /\ ncalls' \in {ncalls, ncalls + 1}

\* the runtime keeps polling the Flusher task and the evictor task while they can run
SpecLive == InitCommon /\ [][Next]_vars /\ WF_<<pc, ncalls>>(FlusherMove) /\ WF_vars(Evict)

\* the flusher and the evictor with readers running beside them
NextPin ==
  \/ Next
  \/ \E k \in Keys : Pin(k)
  \/ \E r \in Regions : Unpin(r)

SpecPin == InitCommon /\ [][NextPin]_vars

\* ------------------------------------------------------------------ properties
InsertedSeqs == {p.sequence : p \in inserted}
EntryOf(s) == CHOOSE e \in sent : e.sequence = s
BytesAt(p) == device_read(dev, p.region, p.offset, p.len)

\* C1: every catalog.insert of an entry follows a successful device.write whose buffer
\* held the entry's bytes; an entry that is only staged is not in the catalog.
C1_InsertFollowsAck ==
  /\ \A p \in inserted : p.sequence \in acked
  /\ \A k \in Keys : catalog[k] # NoItem => catalog[k].sequence \in acked

C1_Witness ==
  /\ inserted # {}
  /\ \E s \in staged : s \notin acked /\ s \notin InsertedSeqs

\* C2: once run has returned Ok after stop or close, the buffer holds no staged bytes and
\* no pending entries, and every entry that handle staged was published to the catalog.
C2_ExitLosesNothing ==
  pc = "exited" =>
    /\ fb.buffer = <<>>
    /\ fb.entries = <<>>
    /\ \A s \in staged : s \in InsertedSeqs

\* C3: once the flusher has rotated into a region, every region it wrote before has been
\* pushed to the eviction queue exactly once per rotation into it.
C3_LeftRegionsPushedOnce ==
  pc \in {"select", "acquire", "retry", "exited"} =>
    \A r \in Regions : pushed[r] = rotated[r] - (IF r = new_region THEN 1 ELSE 0)

\* C4: an entry too large for a fresh region is reported as an error and dropped; the
\* retry write after rotate does not abort the flusher task.
C4_OversizedIsReported ==
  ~(pc = "panicked" /\ call.op = "write" /\ ret.kind = "Right")

\* C5: after the flusher handled every sent entry and stopped, the catalog holds, for a key
\* written twice, the item of the higher sequence (unless the evictor reclaimed it).
C5_HigherSequenceWins ==
  (pc = "exited" /\ entry_rx = <<>>) =>
    \A a \in sent, b \in sent :
      (/\ a.key = b.key
       /\ a.sequence < b.sequence
       /\ \A c \in sent : c.key = b.key => c.sequence <= b.sequence
       /\ {a.sequence, b.sequence} \subseteq staged
       /\ b.sequence \notin evicted)
      => catalog[b.key].sequence = b.sequence

\* C6: while no call has failed, every PositionedEntry a call returns has an aligned
\* offset, an aligned length, and ends inside the region.
C6_ReturnedPositionsAligned ==
  ~anyErr =>
    \A j \in 1 .. Len(ret.entries) :
      /\ ret.entries[j].offset % Align = 0
      /\ ret.entries[j].len % Align = 0
      /\ ret.entries[j].offset + ret.entries[j].len <= RegionSize

C6_Witness ==
  /\ ~anyErr
  /\ Len(ret.entries) >= 2
  /\ ret.entries[2].entry.compression # "None"

\* C7: for every published entry whose region was not rotated into again, the region bytes
\* at [offset, offset + len) start with the entry's encoding and read back to its value.
C7_PublishedBytesReadBack ==
  \A p \in inserted :
    p.gen = rotated[p.region] =>
      LET e == EntryOf(p.sequence)
          b == BytesAt(p)
          enc == EncodeEntry(e)
          rd == ReadBack(b)
      IN /\ Len(b) >= Len(enc)
         /\ SubSeq(b, 1, Len(enc)) = enc
         /\ rd.ok
         /\ rd.sequence = e.sequence
         /\ rd.value = e.value

C7_Witness ==
  \E p \in inserted :
    /\ p.gen = rotated[p.region]
    /\ p.offset > Align
    /\ EntryOf(p.sequence).compression = "Zstd"

\* C8: a call returns a PositionedEntry only if a device.write holding the entry's bytes
\* succeeded, also after an earlier flush failed.
C8_ReturnedOnlyAfterAck ==
  \A j \in 1 .. Len(ret.entries) : ret.entries[j].entry.sequence \in acked

\* C9: a write that fails in an encoder leaves buffer, offset, region and pending entries
\* as they were before the call.
C9_CodecErrorRollsBack ==
  (call.op = "write" /\ ret.kind = "Err" /\ ret.cause = "codec") => fb = pre.fb

\* C10: a write answered with Right changes nothing in the FlushBuffer, issues no
\* device write, and hands back the entry it was given.
C10_RightIsNoop ==
  (call.op = "write" /\ ret.kind = "Right") =>
    /\ fb = pre.fb
    /\ nwrites = pre.nwrites
    /\ ret.entry = call.entry

C10_Witness ==
  /\ call.op = "write"
  /\ ret.kind = "Right"
  /\ fb.region # None
  /\ fb.offset > 0
  /\ Len(call.entry.value) < OversizeLen

\* the last FlushBuffer call failed in device.write
IoFailed == ret.kind = "Err" /\ ret.cause = "io"

\* C11: once a device.write issued by a flush has failed, run has ended with that error,
\* the catalog holds exactly the entries of the flushes that succeeded before, and no
\* catalog.insert and no eviction_push follows.
C11_IoErrorEndsRun ==
  /\ [](IoFailed => (pc = "failed" /\ InsertedSeqs = acked))
  /\ [][IoFailed => (inserted' = inserted /\ pushed' = pushed)]_vars

C11_Witness ==
  /\ IoFailed
  /\ pc = "failed"
  /\ inserted # {}
  /\ \E s \in staged : s \notin acked

\* C12: a region is pushed to the eviction queue only in the step in which rotate
\* returned Ok after a successful device.write of the bytes still staged for that
\* region: those bytes are in the region file and the pending entries of the region are
\* acknowledged. A rotate whose flush fails pushes nothing.
C12_PushFollowsLastFlush ==
  [][\A r \in Regions :
       pushed'[r] > pushed[r] =>
         /\ call'.op = "rotate"
         /\ ret'.kind = "Ok"
         /\ nwrites' = nwrites + 1
         /\ fb.region = r
         /\ device_read(dev', r, fb.offset, Len(fb.buffer)) = fb.buffer
         /\ \A j \in 1 .. Len(fb.entries) : fb.entries[j].entry.sequence \in acked'
         /\ \A p \in Range(fb.entries) : p \in Range(ret'.entries)]_vars

C12_Witness ==
  /\ call.op = "rotate"
  /\ ret.kind = "Ok"
  /\ pre.fb.region # None
  /\ pushed[pre.fb.region] > 0
  /\ Len(ret.entries) > 0
  /\ pre.fb.region \in Range(evictq)

\* the phase of a region: Writing from the rotation into it until its eviction_push
Writing(r) == rotated[r] > pushed[r]

\* C13: at most one region is in the Writing phase, and the region the FlushBuffer
\* holds is neither in the clean pool nor in the eviction queue.
C13_OneWritingRegion ==
  /\ Cardinality({r \in Regions : Writing(r)}) <= 1
  /\ fb.region # None => (fb.region \notin Range(clean) /\ fb.region \notin Range(evictq))

\* C14: whenever eviction_push hands a region to the evictor, no reader pins that region.
C14_PushedUnpinned ==
  [][\A r \in Regions : pushed'[r] > pushed[r] => pin[r] = 0]_vars

\* C15: no catalog item points into a region that is in the clean pool, however the
\* flusher's inserts and the evictor's removals interleave.
C15_CleanRegionsUnreferenced ==
  \A j \in 1 .. Len(clean) : \A k \in Keys : catalog[k].region # clean[j]

C15_Witness ==
  /\ \E r \in Range(clean) : pushed[r] > 0
  /\ evicted # {}
  /\ \E k \in Keys : catalog[k] # NoItem

\* every position handed out so far: the published ones and the pending ones
Positions ==
  {[sequence |-> p.sequence, region |-> p.region, offset |-> p.offset, len |-> p.len, gen |-> p.gen]
     : p \in inserted}
  \cup {[sequence |-> p.entry.sequence, region |-> p.region, offset |-> p.offset, len |-> p.len,
         gen |-> rotated[p.region]] : p \in Range(fb.entries)}

SameRegion(p, q) == p.region = q.region /\ p.gen = q.gen

\* C16: the entries written into a region between two rotations are packed back to back
\* behind the region header: each starts at align or where another one ends, and no two
\* overlap each other or the header block.
C16_EntriesPackedContiguously ==
  \A p \in Positions :
    /\ p.offset >= Align
    /\ p.len > 0
    /\ \/ p.offset = Align
       \/ \E q \in Positions : SameRegion(p, q) /\ q.offset + q.len = p.offset
    /\ \A q \in Positions :
         (SameRegion(p, q) /\ q.sequence # p.sequence) =>
           (p.offset + p.len <= q.offset \/ q.offset + q.len <= p.offset)

C16_Witness ==
  \E p \in Positions, q \in Positions :
    /\ SameRegion(p, q)
    /\ p.offset = Align
    /\ q.offset = p.offset + p.len
    /\ p.len > Align
    /\ p.sequence \in InsertedSeqs
    /\ q.sequence \in InsertedSeqs

\* ------------------------------------------------------------------ FsDeviceConfigBuilder
DEFAULT_ALIGN == 4096
DEFAULT_IO_SIZE == 16384
DEFAULT_FILE_SIZE == 67108864

\* Option::unwrap_or
unwrap_or(opt, default) == IF opt = None THEN default ELSE opt

\* usize::is_power_of_two
RECURSIVE is_power_of_two(_)
is_power_of_two(n) == n = 1 \/ (n > 1 /\ n % 2 = 0 /\ is_power_of_two(n \div 2))

\* the closure align_v of build: value rounded down to a multiple of align
align_v(value, align) == value - (value % align)

\* Ord::clamp; the caller has checked min <= max
clamp(v, min, max) == IF v < min THEN min ELSE IF v > max THEN max ELSE v

CfgPanic(cause) ==
  [kind |-> "Panic", cause |-> cause, capacity |-> 0, file_size |-> 0, align |-> 0, io_size |-> 0]

CfgNotBuilt == CfgPanic("")

\* the capacity once file_size is known
build_capacity(capacity, file_size) == align_v(capacity, file_size)

\* FsDeviceConfigBuilder::build; b.freespace is what freespace(&dir) returns, None for Err.
\* The argument of unwrap_or is evaluated before unwrap_or looks at self.capacity.
build(b) ==
  LET align == unwrap_or(b.align, DEFAULT_ALIGN) IN
  IF b.freespace = None THEN CfgPanic("freespace")
  ELSE IF align = 0 THEN CfgPanic("rem")
  ELSE LET capacity == align_v(unwrap_or(b.capacity, (b.freespace \div 10) * 8), align) IN
    IF align > capacity THEN CfgPanic("clamp")
    ELSE LET file_size == align_v(clamp(unwrap_or(b.file_size, DEFAULT_FILE_SIZE), align, capacity), align)
             io_size == unwrap_or(b.io_size, DEFAULT_IO_SIZE)
         IN [kind |-> "Ok", cause |-> "",
             capacity |-> build_capacity(capacity, file_size),
             file_size |-> file_size,
             align |-> align,
             io_size |-> align_v(IF io_size > align THEN io_size ELSE align, align)]

\* FsDeviceConfig::assert
config_assert(c) ==
  /\ is_power_of_two(c.align)
  /\ c.file_size % c.align = 0
  /\ c.capacity % c.file_size = 0

\* sizes around the defaults and around small multiples
CfgSizes ==
  {u * j + d : u \in {1, DEFAULT_ALIGN, DEFAULT_FILE_SIZE}, j \in 0 .. CfgMax, d \in {0, 1}}
CfgAligns == {pow2(k) : k \in 0 .. CfgLog} \cup {DEFAULT_ALIGN * pow2(k) : k \in 0 .. CfgLog} \cup {0, 3}
CfgOpt(S) == S \cup {None}

CfgInputs ==
  [capacity : CfgOpt(CfgSizes), file_size : CfgOpt(CfgSizes), align : CfgOpt(CfgAligns),
   io_size : CfgOpt({0, 1, DEFAULT_ALIGN + 1, DEFAULT_IO_SIZE * 2 + 1}),
   freespace : CfgOpt({0, DEFAULT_ALIGN * 10, DEFAULT_FILE_SIZE * 10 + 5})]

InitCfg == InitState /\ cfg \in {[in |-> b, out |-> CfgNotBuilt] : b \in CfgInputs}

Build ==
  /\ cfg.out = CfgNotBuilt
  /\ cfg' = [cfg EXCEPT !.out = build(cfg.in)]
  /\ UNCHANGED <<bufVars, runVars, callVars, histVars, pin>>

NextCfg == Build

SpecCfg == InitCfg /\ [][NextCfg]_vars

\* the capacity the builder was asked for: the given one, else 80% of the free space
CfgRequested(b) == unwrap_or(b.capacity, IF b.freespace = None THEN None ELSE (b.freespace \div 10) * 8)

\* align is a power of two and the given or derived capacity is at least align
CfgPre(b) ==
  /\ is_power_of_two(unwrap_or(b.align, DEFAULT_ALIGN))
  /\ CfgRequested(b) # None
  /\ CfgRequested(b) >= unwrap_or(b.align, DEFAULT_ALIGN)

CfgPost(b, c) ==
  /\ c.kind = "Ok"
  /\ config_assert(c)
  /\ c.align <= c.file_size
  /\ c.file_size <= c.capacity
  /\ c.capacity <= CfgRequested(b)
  /\ c.io_size >= c.align
  /\ c.io_size % c.align = 0

\* C17: for every builder input whose align is a power of two and whose given or derived
\* capacity is at least align, build returns a configuration that passes
\* FsDeviceConfig::assert, with align <= file_size <= capacity <= the requested capacity
\* and io_size a multiple of align that is at least align.
C17_BuildPassesAssert ==
  (cfg.out # CfgNotBuilt /\ CfgPre(cfg.in)) => CfgPost(cfg.in, cfg.out)

\* ------------------------------------------------------------------ FlushBuffer between calls
\* C18: after any sequence of rotate, write and flush calls, failed ones included, a
\* FlushBuffer without a region has an empty buffer and no pending entries.
C18_NoRegionNothingStaged ==
  fb.region = None => (fb.buffer = <<>> /\ fb.entries = <<>>)

C18_Witness ==
  /\ fb.region = None
  /\ fb.offset = RegionSize
  /\ anyErr
  /\ call.op = "write"
  /\ ret.kind = "Left"
  /\ Len(ret.entries) >= 2

\* C19: after any sequence of calls, failed ones included, the staged bytes end inside
\* the region, and a FlushBuffer that holds a region has room left in it.
C19_StagedBytesInsideRegion ==
  ret.kind # "Panic" =>
    /\ fb.offset + Len(fb.buffer) <= RegionSize
    /\ fb.region # None => fb.offset < RegionSize

\* C20: after any sequence of calls, failed ones included, the length of the staging
\* buffer is a multiple of align, and the alignment assertion of write never fails.
C20_BufferLengthAligned ==
  /\ ret.kind # "Panic" => is_aligned(Align, Len(fb.buffer))
  /\ ~(ret.kind = "Panic" /\ ret.cause = "align")

\* the last call was a write that staged its entry
Accepted == call.op = "write" /\ (ret.kind = "Left" \/ IoFailed)

\* the position that write gave to its entry
LastPos == IF ret.entries # <<>> THEN ret.entries[Len(ret.entries)] ELSE fb.entries[Len(fb.entries)]

\* buffer.len() after staging and padding the entry
StagedLen == LastPos.offset + LastPos.len - pre.fb.offset

FlushDue == StagedLen >= IoSize \/ pre.fb.offset + StagedLen = RegionSize

\* C21: a write that accepts its entry issues a device write exactly when the padded
\* buffer reached io_size or the region has no room left; otherwise it returns Left([])
\* and keeps the entry pending. After a write that returned Left with the region still
\* set, the buffer is shorter than io_size or empty.
C21_FlushExactlyWhenDue ==
  /\ Accepted =>
       /\ LastPos.entry = call.entry
       /\ FlushDue <=> nwrites = pre.nwrites + 1
       /\ ~FlushDue =>
            /\ ret.kind = "Left"
            /\ ret.entries = <<>>
            /\ nwrites = pre.nwrites
            /\ fb.entries = Append(pre.fb.entries, LastPos)
            /\ Len(fb.buffer) = StagedLen
  /\ (call.op = "write" /\ ret.kind = "Left" /\ fb.region # None) =>
       (Len(fb.buffer) < IoSize \/ fb.buffer = <<>>)

C21_Witness ==
  /\ Accepted
  /\ ~FlushDue
  /\ pre.fb.offset > 0
  /\ fb.entries # <<>>

\* len rounded up to a multiple of align
Padded(len) == ((len + Align - 1) \div Align) * Align

\* what a successful flush of the FlushBuffer f with pending entries es leaves and returns
FlushedFrom(f, es) ==
  /\ ret.entries = es
  /\ \A j \in 1 .. Len(es) - 1 : es[j].entry.sequence < es[j + 1].entry.sequence
  /\ fb.entries = <<>>
  /\ fb.buffer = <<>>
  /\ nwrites = pre.nwrites + 1
  /\ fb.region = None <=> fb.offset = RegionSize
  /\ fb.region # None => fb.region = f.region

\* C22: a successful flush with a region set returns the pending entries in the order
\* they were written, empties the pending list and the buffer, advances offset by the
\* padded buffer length and clears region exactly when the new offset is region_size; a
\* flush without a region returns no entry and changes nothing. The flush a write runs
\* does the same with the entry just staged.
C22_FlushDrainsAndAdvances ==
  /\ (call.op = "flush" /\ ret.kind = "Ok" /\ pre.fb.region # None) =>
       /\ FlushedFrom(pre.fb, pre.fb.entries)
       /\ fb.offset = pre.fb.offset + Padded(Len(pre.fb.buffer))
  /\ (call.op = "flush" /\ pre.fb.region = None) =>
       /\ ret.kind = "Ok"
       /\ ret.entries = <<>>
       /\ fb = pre.fb
       /\ nwrites = pre.nwrites
  /\ (call.op = "write" /\ ret.kind = "Left" /\ nwrites # pre.nwrites) =>
       /\ FlushedFrom(pre.fb, Append(pre.fb.entries, LastPos))
       /\ fb.offset = pre.fb.offset + StagedLen

C22_Witness ==
  /\ call.op = "flush"
  /\ ret.kind = "Ok"
  /\ ret.entries # <<>>
  /\ Len(pre.fb.buffer) > Align
  /\ fb.offset > 0
  /\ fb.region = pre.fb.region

\* C23: a successful rotate(new_region) writes the bytes staged for the previous region,
\* returns the entries that were pending, all of the previous region, and leaves
\* region = new_region, offset = 0, the header block in the buffer and no pending
\* entry; a rotate whose flush fails leaves region and offset as they were.
C23_RotateFlushesThenSwitches ==
  /\ (call.op = "rotate" /\ ret.kind = "Ok") =>
       /\ ret.entries = pre.fb.entries
       /\ \A j \in 1 .. Len(ret.entries) : ret.entries[j].region = pre.fb.region
       /\ pre.fb.region # None =>
            /\ nwrites = pre.nwrites + 1
            /\ device_read(dev, pre.fb.region, pre.fb.offset, Len(pre.fb.buffer)) = pre.fb.buffer
       /\ fb.region = call.region
       /\ fb.offset = 0
       /\ Len(fb.buffer) = Align
       /\ fb.buffer = RegionHeaderBlock
       /\ fb.entries = <<>>
  /\ (call.op = "rotate" /\ ret.kind # "Ok") =>
       /\ fb.region = pre.fb.region
       /\ fb.offset = pre.fb.offset

C23_Witness ==
  /\ call.op = "rotate"
  /\ ret.kind = "Ok"
  /\ ret.entries # <<>>
  /\ pre.fb.buffer # <<>>
  /\ call.region # pre.fb.region

\* C24: every device.write that flush issues has an aligned offset and an aligned length
\* and ends inside the region file, so the range assertion of the device never fails.
C24_DeviceWritesInRange ==
  /\ fb.offset % Align = 0
  /\ ~(ret.kind = "Panic" /\ ret.cause = "range")

\* C25: when the device.write of a flush fails, the call returns the error and no entry,
\* the pending entries stay queued, and region and offset are what they were.
C25_FailedFlushKeepsState ==
  IoFailed =>
    /\ ret.entries = <<>>
    /\ nwrites = pre.nwrites + 1
    /\ fb.region = pre.fb.region
    /\ fb.offset = pre.fb.offset
    /\ Len(fb.entries) = Len(pre.fb.entries) + (IF call.op = "write" THEN 1 ELSE 0)
    /\ SubSeq(fb.entries, 1, Len(pre.fb.entries)) = pre.fb.entries
    /\ call.op = "write" => fb.entries[Len(fb.entries)].entry = call.entry

C25_Witness ==
  /\ IoFailed
  /\ call.op = "flush"
  /\ fb.entries # <<>>
  /\ pre.fb.buffer # <<>>

\* the entry fits a region behind its header block
FitsFreshRegion(e) == Len(EncodeEntry(e)) <= RegionSize - Align

\* C26: while handle holds an entry that write handed back as Right, nothing was staged
\* or inserted for it; and the retry write after the rotation into the acquired region
\* does not answer Right when the encoded entry is at most region_size - align: it
\* returns Left, or the error of an encoder or of the device.
C26_RetryAcceptsFittingEntry ==
  /\ [](pc \in {"acquire", "rotate", "retry"} =>
         /\ cur # NoEntry
         /\ cur.sequence \notin staged
         /\ cur.sequence \notin InsertedSeqs)
  /\ [][(pc = "retry" /\ pc' # "retry" /\ FitsFreshRegion(cur)) =>
         /\ call'.op = "write"
         /\ call'.entry = cur
         /\ ret'.kind \in {"Left", "Err"}
         /\ ret'.kind = "Left" => (cur.sequence \in staged' /\ pc' = "select")]_vars

C26_Witness ==
  /\ pc = "select"
  /\ call.op = "write"
  /\ ret.kind = "Left"
  /\ pre.fb.offset = 0
  /\ pre.fb.buffer = RegionHeaderBlock
  /\ \E r \in Regions : pushed[r] > 0 /\ r # fb.region
  /\ call.entry.sequence \in staged

\* C27: run takes the stop branch or the closed branch only when no entry is ready,
\* hands the entries to write in the order they were enqueued, and, once stop has
\* fired or the channel is closed, eventually returns.
C27_RunDrainsThenExits ==
  /\ [][(pc = "select" /\ pc' = "exited") => entry_rx = <<>>]_vars
  /\ [][(pc = "select" /\ ncalls' # ncalls /\ call'.op = "write") => call'.entry = Head(entry_rx)]_vars
  /\ (stop \/ closed) ~> (pc \in {"exited", "failed"})

\* C28: a FlushBuffer call never returns an entry that an earlier call returned, nor
\* the same entry twice, so no entry is inserted into the catalog twice; and every
\* insert is a view into a region the Flusher rotated into and has not pushed since.
C28_ReturnedAndInsertedOnce ==
  [][/\ ncalls' # ncalls =>
          /\ \A j \in 1 .. Len(ret'.entries) : ret'.entries[j].entry.sequence \notin InsertedSeqs
          /\ \A j \in 1 .. Len(ret'.entries), k \in 1 .. Len(ret'.entries) :
               j # k => ret'.entries[j].entry.sequence # ret'.entries[k].entry.sequence
     /\ inserted' # inserted => ncalls' # ncalls
     /\ \A p \in inserted' \ inserted :
          /\ rotated[p.region] > pushed[p.region]
          /\ p.gen = rotated[p.region]]_vars

C28_Witness ==
  \E p \in inserted, q \in inserted :
    /\ p.region # q.region
    /\ pushed[p.region] > 0
    /\ pushed[q.region] = 0
====
